---------------------------- MODULE Spec2Model ----------------------------
(***************************************************************************)
(* Production schedule reflow (ReflowService.reflow) and the working-      *)
(* minutes allocator (scheduleWithShiftsAndBlocks).                         *)
(*                                                                         *)
(* Instants are whole minutes counted from Sunday 2026-03-01T00:00Z, so    *)
(* that Monday 2026-03-02T08:00Z is minute 1440 + 480.  An ISO string is a *)
(* record [t, ms]: the instant it denotes and whether it is written with   *)
(* milliseconds ("...:00.000Z", what DateTime.toISO() emits) or without    *)
(* ("...:00Z", what the sample inputs use).  Two strings are equal exactly *)
(* when both fields are.                                                   *)
(***************************************************************************)
EXTENDS Integers, Sequences, FiniteSets, TLC

VARIABLES
    input,          \* the caller's ReflowInput of the current call
    pc,             \* "start" | "place" | "done" | "failed"
    err,            \* the error thrown by the current call, "none" if none
    woMap,          \* the cloned work orders, in insertion order
    topoIds,        \* result of topoSortWorkOrders
    centerBooked,   \* work center id -> blocked intervals
    scheduled,      \* ids put in the scheduled map, in insertion order
    changes,        \* change records, in placement order
    k,              \* position of the placement loop in topoIds
    result,         \* the ReflowResult returned by the current call
    run,            \* 1: the call on the original input, 2: on its result
    first,          \* the input and the result of call 1, kept for call 2
    lastCall,       \* the most recent call of scheduleWithShiftsAndBlocks
    callerOrders,   \* the work order objects the caller passed, as they are now
    frame           \* the locals of a function that is called on its own

vars == << input, pc, err, woMap, topoIds, centerBooked, scheduled, changes,
           k, result, run, first, lastCall, callerOrders, frame >>

-----------------------------------------------------------------------------
(* Time *)

MinutesPerDay == 24 * 60

\* The search horizon of findNextShiftWindow, in days.
HorizonDays == 14

\* Luxon's weekday (Mon=1..Sun=7) is reduced modulo this.
DaysPerWeek == 7

At(day, hour, minute) == day * MinutesPerDay + hour * 60 + minute

\* DateTime.fromISO(s, {zone: "utc"})
fromISO(s) == s.t

\* DateTime.toISO(): always written with milliseconds
toISO(t) == [t |-> t, ms |-> TRUE]

\* An input string written without milliseconds, as in the sample data
Z(t) == [t |-> t, ms |-> FALSE]

\* day.startOf("day")
startOfDay(t) == (t \div MinutesPerDay) * MinutesPerDay

\* day.weekday % 7, Sunday = 0
weekdayMod7(t) == (t \div MinutesPerDay) % DaysPerWeek

Min(a, b) == IF a < b THEN a ELSE b

-----------------------------------------------------------------------------
(* Interval primitives: utils/interval-utils.ts *)

Interval(s, e) == [start |-> s, end |-> e]

overlaps(a, b) == a.start < b.end /\ b.start < a.end

\* Insert x into a list sorted by start, after every element whose start is
\* not greater: Array.prototype.sort is stable.
RECURSIVE InsertByStart(_, _)
InsertByStart(x, s) ==
    IF s = << >> THEN << x >>
    ELSE IF x.start < Head(s).start THEN << x >> \o s
    ELSE << Head(s) >> \o InsertByStart(x, Tail(s))

RECURSIVE sortIntervals(_)
sortIntervals(s) ==
    IF s = << >> THEN << >>
    ELSE InsertByStart(s[Len(s)], sortIntervals(SubSeq(s, 1, Len(s) - 1)))

\* The first block of the list that contains the cursor decides.
RECURSIVE pushOutOfBlocked(_, _)
pushOutOfBlocked(cursor, blocked) ==
    IF blocked = << >> THEN cursor
    ELSE IF cursor >= Head(blocked).start /\ cursor < Head(blocked).end
         THEN Head(blocked).end
         ELSE pushOutOfBlocked(cursor, Tail(blocked))

-----------------------------------------------------------------------------
(* Shift windows: utils/date-utils.ts *)

shiftIntervalForDay(day, shift) ==
    Interval(day + shift.startHour * 60, day + shift.endHour * 60)

RECURSIVE ShiftsOn(_, _)
ShiftsOn(shifts, dow) ==
    IF shifts = << >> THEN << >>
    ELSE IF Head(shifts).dayOfWeek = dow
         THEN << Head(shifts) >> \o ShiftsOn(Tail(shifts), dow)
         ELSE ShiftsOn(Tail(shifts), dow)

\* shifts.filter(...).map(...).sort(by start) for the day that starts at `day`
intervalsForDay(day, on) ==
    [i \in 1..Len(on) |-> shiftIntervalForDay(day, on[i])]

dayWindows(day, shifts) ==
    sortIntervals(intervalsForDay(day, ShiftsOn(shifts, weekdayMod7(day))))

\* Same day: the first window whose end is after the cursor, 0 if none
RECURSIVE FirstOpen(_, _, _)
FirstOpen(cursor, ws, i) ==
    IF i > Len(ws) THEN 0
    ELSE IF cursor < ws[i].end THEN i
    ELSE FirstOpen(cursor, ws, i + 1)

NoWindow == [ok |-> FALSE, start |-> 0, end |-> 0]

\* The later of the cursor and the start of a window
clampTo(cursor, windowStart) ==
    IF cursor < windowStart THEN windowStart ELSE cursor

\* A resolver that returns the window of the cursor's day uncut
wholeWindow(cursor, w) == [ok |-> TRUE, start |-> w.start, end |-> w.end]

\* The window of the cursor's own day: ws[i] cut at the cursor
sameDayWindow(cursor, w) ==
    [ok |-> TRUE, start |-> clampTo(cursor, w.start), end |-> w.end]

RECURSIVE SearchDays(_, _, _)
RECURSIVE searchDay(_, _, _, _)
RECURSIVE searchToday(_, _, _, _)

searchToday(cursor, shifts, ws, i) ==
    IF i = 0 THEN SearchDays(cursor, shifts, 1)
    ELSE sameDayWindow(cursor, ws[i])

\* A resolver that takes the last window of a later day, not the first
lateWindow(cursor, shifts, d, ws) ==
    IF ws = << >> THEN SearchDays(cursor, shifts, d + 1)
    ELSE IF d = 0 THEN searchToday(cursor, shifts, ws, FirstOpen(cursor, ws, 1))
    ELSE [ok |-> TRUE, start |-> ws[Len(ws)].start, end |-> ws[Len(ws)].end]

searchDay(cursor, shifts, d, ws) ==
    IF ws = << >> THEN SearchDays(cursor, shifts, d + 1)
    ELSE IF d = 0 THEN searchToday(cursor, shifts, ws, FirstOpen(cursor, ws, 1))
    ELSE [ok |-> TRUE, start |-> ws[1].start, end |-> ws[1].end]

\* for (let d = 0; d < 14; d++)
SearchDays(cursor, shifts, d) ==
    IF d >= HorizonDays THEN NoWindow
    ELSE searchDay(cursor, shifts, d,
                   dayWindows(startOfDay(cursor + d * MinutesPerDay), shifts))

\* ok = FALSE stands for either of the two throws
findNextShiftWindow(cursor, shifts) ==
    IF Len(shifts) = 0 THEN NoWindow
    ELSE SearchDays(cursor, shifts, 0)

-----------------------------------------------------------------------------
(* Working-minutes allocator: scheduleWithShiftsAndBlocks *)

\* Most loop passes of one allocator call that the model follows.
MaxPasses == 40

\* The block that could cut the current shift segment: index of the first
\* block that does not end at or before the cursor, provided it starts
\* before the shift end; 0 when there is none.
RECURSIVE NextBlock(_, _, _, _)
NextBlock(cursor, shiftEnd, blocked, i) ==
    IF i > Len(blocked) THEN 0
    ELSE IF blocked[i].end <= cursor THEN NextBlock(cursor, shiftEnd, blocked, i + 1)
    ELSE IF blocked[i].start >= shiftEnd THEN 0
    ELSE i

\* An allocator that works on past the end of the free segment
consumeAll(remaining, freeMinutes) == remaining

\* Step 7 of the loop: the working minutes taken from [cursor, freeEnd)
Consume(remaining, freeMinutes) == Min(remaining, freeMinutes)

\* Step 8 of the loop: where the cursor stands after consuming
AfterConsume(cursor, blocked) == pushOutOfBlocked(cursor, blocked)

\* The loop state before the first pass: cursor pushed out of blocked time,
\* no scheduled start yet.  segs lists the consumed stretches [from, to).
LoopInit(startISO, durationMinutes, blockedSorted) ==
    [cursor    |-> pushOutOfBlocked(fromISO(startISO), blockedSorted),
     remaining |-> durationMinutes,
     started   |-> FALSE,
     scheduledStart |-> 0,
     segs      |-> << >>,
     thrown    |-> FALSE]

\* Steps 2 and 3 of the loop: clamp, push out of blocked time, clamp again
cursorInWindow(cursor, w, blockedSorted) ==
    clampTo(pushOutOfBlocked(clampTo(cursor, w.start), blockedSorted), w.start)

\* `if (!scheduledStart) scheduledStart = cursor`
markStart(st, c) ==
    IF st.started THEN [st EXCEPT !.cursor = c]
    ELSE [st EXCEPT !.cursor = c, !.started = TRUE, !.scheduledStart = c]

\* An allocator whose free segment always runs to the shift end
throughBlocks(c, shiftEnd, nb, blockedSorted) == shiftEnd

\* Step 6 of the loop; nb is the index NextBlock found, 0 if none
freeEndOf(c, shiftEnd, nb, blockedSorted) ==
    IF nb # 0 /\ blockedSorted[nb].start > c
    THEN (IF blockedSorted[nb].start < shiftEnd
          THEN blockedSorted[nb].start ELSE shiftEnd)
    ELSE shiftEnd

\* Steps 7 and 8: consume `used` minutes from c on
consumed(st, c, used, blockedSorted) ==
    [st EXCEPT !.remaining = st.remaining - used,
               !.cursor    = AfterConsume(c + used, blockedSorted),
               !.segs      = Append(st.segs, Interval(c, c + used))]

\* From the free segment [c, freeEnd) on
passFree(st, c, shiftEnd, nb, freeEnd, blockedSorted) ==
    IF freeEnd <= c
    THEN (IF nb # 0 THEN [st EXCEPT !.cursor = blockedSorted[nb].end]
          ELSE [st EXCEPT !.cursor = shiftEnd + 1])
    ELSE IF freeEnd - c <= 0 THEN [st EXCEPT !.cursor = freeEnd + 1]
    ELSE consumed(st, c, Consume(st.remaining, freeEnd - c), blockedSorted)

\* From step 5 on: c is inside the window
passBlocks(st, c, shiftEnd, nb, blockedSorted) ==
    passFree(st, c, shiftEnd, nb, freeEndOf(c, shiftEnd, nb, blockedSorted),
             blockedSorted)

\* A loop that does not move the cursor on when it stands past the shift end
stalledAtShiftEnd(st, w, c, blockedSorted) ==
    IF c >= w.end THEN st
    ELSE passBlocks(markStart(st, c), c, w.end,
                    NextBlock(c, w.end, blockedSorted, 1), blockedSorted)

\* From step 4 on: c is the cursor after steps 2 and 3
passAt(st, w, c, blockedSorted) ==
    IF c >= w.end THEN [st EXCEPT !.cursor = w.end + 1]
    ELSE passBlocks(markStart(st, c), c, w.end,
                    NextBlock(c, w.end, blockedSorted, 1), blockedSorted)

passInWindow(st, w, blockedSorted) ==
    IF ~w.ok THEN [st EXCEPT !.thrown = TRUE]
    ELSE passAt(st, w, cursorInWindow(st.cursor, w, blockedSorted),
                blockedSorted)

\* One pass of `while (remaining > 0)`
LoopPass(st, shifts, blockedSorted) ==
    passInWindow(st, findNextShiftWindow(st.cursor, shifts), blockedSorted)

RECURSIVE RunLoop(_, _, _, _)
RunLoop(st, shifts, blockedSorted, fuel) ==
    IF st.thrown \/ st.remaining <= 0 \/ fuel = 0 THEN st
    ELSE RunLoop(LoopPass(st, shifts, blockedSorted), shifts, blockedSorted,
                 fuel - 1)

\* The call as a whole.  ok = FALSE: findNextShiftWindow threw.  The
\* parameters and the consumed stretches are kept beside the result.
callResult(startISO, durationMinutes, shifts, blockedSorted, st) ==
    [ok       |-> ~st.thrown,
     returned |-> ~st.thrown /\ st.remaining <= 0,
     startISO |-> toISO(IF st.started THEN st.scheduledStart
                        ELSE fromISO(startISO)),
     endISO   |-> toISO(st.cursor),
     segs     |-> st.segs,
     from     |-> fromISO(startISO),
     durationMinutes |-> durationMinutes,
     shifts   |-> shifts,
     blocked  |-> blockedSorted]

allocate(startISO, durationMinutes, shifts, blockedSorted) ==
    callResult(startISO, durationMinutes, shifts, blockedSorted,
               RunLoop(LoopInit(startISO, durationMinutes, blockedSorted),
                       shifts, blockedSorted, MaxPasses))

scheduleWithShiftsAndBlocks(startISO, durationMinutes, shifts, blocked) ==
    allocate(startISO, durationMinutes, shifts, sortIntervals(blocked))

-----------------------------------------------------------------------------
(* Dependency ordering: reflow/dag.ts *)

Range(s) == { s[i] : i \in 1..Len(s) }

docIds(workOrders) == [i \in 1..Len(workOrders) |-> workOrders[i].docId]

\* The first work order with this docId (ids are unique in every input)
RECURSIVE ById(_, _)
ById(workOrders, id) ==
    IF Head(workOrders).docId = id THEN Head(workOrders)
    ELSE ById(Tail(workOrders), id)

\* Number of times x occurs in the list s
RECURSIVE Count(_, _)
Count(s, x) ==
    IF s = << >> THEN 0
    ELSE (IF Head(s) = x THEN 1 ELSE 0) + Count(Tail(s), x)

RECURSIVE Repeat(_, _)
Repeat(x, n) == IF n = 0 THEN << >> ELSE << x >> \o Repeat(x, n - 1)

\* adj.get(parentId): the children pushed while walking the work orders and
\* their dependsOnWorkOrderIds in order, one entry per listing
RECURSIVE adjOf(_, _)
adjOf(workOrders, parentId) ==
    IF workOrders = << >> THEN << >>
    ELSE Repeat(Head(workOrders).docId,
                Count(Head(workOrders).data.dependsOnWorkOrderIds, parentId))
         \o adjOf(Tail(workOrders), parentId)

\* A sort whose queue starts with the ids of in-degree 0 last first
RECURSIVE rootsLastFirst(_, _)
rootsLastFirst(ids, inDegree) ==
    IF ids = << >> THEN << >>
    ELSE rootsLastFirst(Tail(ids), inDegree)
         \o (IF inDegree[Head(ids)] = 0 THEN << Head(ids) >> ELSE << >>)

\* The ids that have in-degree 0, in the insertion order of the map
RECURSIVE ZeroDegree(_, _)
ZeroDegree(ids, inDegree) ==
    IF ids = << >> THEN << >>
    ELSE (IF inDegree[Head(ids)] = 0 THEN << Head(ids) >> ELSE << >>)
         \o ZeroDegree(Tail(ids), inDegree)

\* for (const child of adj.get(id)): decrement, push when it reaches 0
RECURSIVE Release(_, _, _)
Release(children, inDegree, queue) ==
    IF children = << >> THEN [inDegree |-> inDegree, queue |-> queue]
    ELSE LET c   == Head(children)
             deg == inDegree[c] - 1
         IN  Release(Tail(children), [inDegree EXCEPT ![c] = deg],
                     IF deg = 0 THEN Append(queue, c) ELSE queue)

\* A sort that emits every id without looking at the dependencies
emitInputOrder(workOrders, queue, inDegree, emitted) == docIds(workOrders)

\* while (queue.length): shift, push to result, release the children
RECURSIVE Kahn(_, _, _, _)
Kahn(workOrders, queue, inDegree, emitted) ==
    IF queue = << >> THEN emitted
    ELSE LET id == Head(queue)
             r  == Release(adjOf(workOrders, id), inDegree, Tail(queue))
         IN  Kahn(workOrders, r.queue, r.inDegree, Append(emitted, id))

\* A sort that takes every listed parent for a work order of the input
anyParents(workOrders, nodes) == TRUE

\* `nodes.has(parentId)` for every parentId listed by every work order
knownParents(workOrders, nodes) ==
    \A i \in 1..Len(workOrders) :
        Range(workOrders[i].data.dependsOnWorkOrderIds) \subseteq nodes

topoSortWorkOrders(workOrders) ==
    LET ids   == docIds(workOrders)
        nodes == Range(ids)
        known == knownParents(workOrders, nodes)
        inDegree == [id \in nodes |->
                        Len(ById(workOrders, id).data.dependsOnWorkOrderIds)]
        emitted == Kahn(workOrders, ZeroDegree(ids, inDegree), inDegree, << >>)
    IN  IF ~known THEN [ok |-> FALSE, err |-> "UnknownDependency", ids |-> << >>]
        ELSE IF Len(emitted) # Len(workOrders)
        THEN [ok |-> FALSE, err |-> "CyclicDependency", ids |-> << >>]
        ELSE [ok |-> TRUE, err |-> "none", ids |-> emitted]

-----------------------------------------------------------------------------
(* Blocked intervals: reflow/constraint-checker.ts *)

buildMaintenanceIntervals(workCenter) ==
    [i \in 1..Len(workCenter.data.maintenanceWindows) |->
        Interval(fromISO(workCenter.data.maintenanceWindows[i].startDate),
                 fromISO(workCenter.data.maintenanceWindows[i].endDate))]

buildOrderInterval(order) ==
    Interval(fromISO(order.data.startDate), fromISO(order.data.endDate))

-----------------------------------------------------------------------------
(* The reflow driver: reflow/reflow.service.ts *)

centerIds(workCenters) == { workCenters[i].docId : i \in 1..Len(workCenters) }

\* wcMap.get(id), for an id that is in the map
RECURSIVE centerById(_, _)
centerById(workCenters, id) ==
    IF Head(workCenters).docId = id THEN Head(workCenters)
    ELSE centerById(Tail(workCenters), id)

\* structuredClone of the work orders, in the order of the input list
cloneWorkOrders(workOrders) == workOrders

\* A map that keeps the caller's own objects instead of copies
sameObject(workOrders, i) == i

\* Objects are told apart by their place in the heap. The caller's work
\* orders lie at 1..n in the order of the input list; structuredClone(w)
\* allocates the object woMap holds for the i-th of them at a fresh place.
structuredClone(workOrders, i) == Len(workOrders) + i

\* Position of the work order with this docId in the list
RECURSIVE positionOf(_, _)
positionOf(workOrders, id) ==
    IF Head(workOrders).docId = id THEN 1
    ELSE 1 + positionOf(Tail(workOrders), id)

\* The caller's objects after a write to the object at this place
storeOrder(objects, at, wo) ==
    IF at \in 1..Len(objects) THEN [objects EXCEPT ![at] = wo] ELSE objects

\* A driver that does not lock the maintenance work orders
pinNothing(workOrders, booked) == [ok |-> TRUE, booked |-> booked]

\* Lock the maintenance work orders into the bookings of their centers, in
\* the order of woMap; ok = FALSE when one names a center without bookings.
RECURSIVE pinMaintenance(_, _)
pinMaintenance(workOrders, booked) ==
    IF workOrders = << >> THEN [ok |-> TRUE, booked |-> booked]
    ELSE LET wo == Head(workOrders)
             c  == wo.data.workCenterId
         IN  IF ~wo.data.isMaintenance
             THEN pinMaintenance(Tail(workOrders), booked)
             ELSE IF c \notin DOMAIN booked
             THEN [ok |-> FALSE, booked |-> booked]
             ELSE pinMaintenance(Tail(workOrders),
                     [booked EXCEPT ![c] =
                         sortIntervals(Append(booked[c], buildOrderInterval(wo)))])

\* A driver that looks at the first listed parent only
onlyFirstParent(parentIds, orders, latest) ==
    IF parentIds = << >> THEN latest
    ELSE IF fromISO(ById(orders, Head(parentIds)).data.endDate) > latest
    THEN fromISO(ById(orders, Head(parentIds)).data.endDate)
    ELSE latest

\* The later of the order's own start and its parents' ends
RECURSIVE latestParentEnd(_, _, _)
latestParentEnd(parentIds, orders, latest) ==
    IF parentIds = << >> THEN latest
    ELSE LET parentEnd == fromISO(ById(orders, Head(parentIds)).data.endDate)
         IN  latestParentEnd(Tail(parentIds), orders,
                             IF parentEnd > latest THEN parentEnd ELSE latest)

\* A driver that starts every order at its own startDate, whatever its parents
startIgnoringParents(wo, orders) == fromISO(wo.data.startDate)

earliestStart(wo, orders) ==
    latestParentEnd(wo.data.dependsOnWorkOrderIds, orders,
                    fromISO(wo.data.startDate))

\* durationMinutes + (setupTimeMinutes ?? 0)
totalMinutes(wo) ==
    wo.data.durationMinutes
    + (IF wo.data.hasSetup THEN wo.data.setupTimeMinutes ELSE 0)

\* A driver that allocates maintenance orders like any other order
pinsNothing(wo) == FALSE

\* Maintenance orders are immovable: recorded as they are, never allocated
isPinned(wo) == wo.data.isMaintenance

\* The order as written back after placement
placed(wo, call) ==
    [wo EXCEPT !.data.startDate = call.startISO, !.data.endDate = call.endISO]

\* A reflow that does not book the orders it places
bookedBefore(bookedNow, wo) == bookedNow

\* The bookings of a center after an order was placed on it
bookedAfter(bookedNow, wo) ==
    sortIntervals(Append(bookedNow, buildOrderInterval(wo)))

\* woMap with the order of this id replaced
replaceOrder(orders, wo) ==
    [i \in 1..Len(orders) |->
        IF orders[i].docId = wo.docId THEN wo ELSE orders[i]]

deltaMinutesOf(newEnd, oldEnd) == fromISO(newEnd) - fromISO(oldEnd)

changeRecord(wo, originalStart, originalEnd) ==
    [workOrderId  |-> wo.docId,
     oldStart     |-> originalStart,
     newStart     |-> wo.data.startDate,
     oldEnd       |-> originalEnd,
     newEnd       |-> wo.data.endDate,
     deltaMinutes |-> deltaMinutesOf(wo.data.endDate, originalEnd)]

\* A total that lets negative deltas count
RECURSIVE sumDeltas(_)
sumDeltas(cs) ==
    IF cs = << >> THEN 0 ELSE Head(cs).deltaMinutes + sumDeltas(Tail(cs))

\* changes.reduce((sum, c) => sum + Math.max(0, c.deltaMinutes), 0)
RECURSIVE sumDelays(_)
sumDelays(cs) ==
    IF cs = << >> THEN 0
    ELSE (IF Head(cs).deltaMinutes > 0 THEN Head(cs).deltaMinutes ELSE 0)
         + sumDelays(Tail(cs))

\* A driver that returns the orders in the order of the input
inInputOrder(ids, done, orders) == orders

\* topoIds.map((id) => scheduled.get(id)).filter(Boolean)
RECURSIVE updatedWorkOrders(_, _, _)
updatedWorkOrders(ids, done, orders) ==
    IF ids = << >> THEN << >>
    ELSE (IF Head(ids) \in Range(done) THEN << ById(orders, Head(ids)) >>
          ELSE << >>)
         \o updatedWorkOrders(Tail(ids), done, orders)

NoCall == << >>

\* No function is running on its own
NoFrame == << >>

Fail(kind) ==
    /\ pc' = "failed"
    /\ err' = kind

\* reflow(input) up to the placement loop: clone, sort, seed, pin
Begin ==
    /\ pc = "start"
    /\ LET orders == cloneWorkOrders(input.workOrders)
           topo   == topoSortWorkOrders(orders)
           seeded == [c \in centerIds(input.workCenters) |->
                         buildMaintenanceIntervals(
                             centerById(input.workCenters, c))]
           pinned == pinMaintenance(orders, seeded)
       IN  /\ woMap' = orders
           /\ IF ~topo.ok
              THEN /\ Fail(topo.err)
                   /\ UNCHANGED << topoIds, centerBooked >>
              ELSE IF ~pinned.ok
              THEN /\ Fail("UnknownWorkCenter")
                   /\ topoIds' = topo.ids
                   /\ centerBooked' = pinned.booked
              ELSE /\ pc' = "place"
                   /\ err' = "none"
                   /\ topoIds' = topo.ids
                   /\ centerBooked' = pinned.booked
    /\ k' = 1
    /\ UNCHANGED << input, scheduled, changes, result, run, first, lastCall,
                    callerOrders, frame >>

\* The end of a pass that threw
Throw(kind) ==
    /\ Fail(kind)
    /\ UNCHANGED << woMap, centerBooked, scheduled, changes, k, callerOrders >>

\* A maintenance order is recorded as it is
RecordPinned(id) ==
    /\ scheduled' = Append(scheduled, id)
    /\ k' = k + 1
    /\ UNCHANGED << pc, err, woMap, centerBooked, changes, lastCall,
                    callerOrders >>

\* `if (originalStart !== wo.data.startDate || originalEnd !== wo.data.endDate)`
changesAfter(cs, wo, new) ==
    IF wo.data.startDate # new.data.startDate
       \/ wo.data.endDate # new.data.endDate
    THEN Append(cs, changeRecord(new, wo.data.startDate, wo.data.endDate))
    ELSE cs

\* The order is written back, booked on its center and recorded
WriteBack(id, wo, c, new) ==
    /\ woMap' = replaceOrder(woMap, new)
    /\ callerOrders' =
           storeOrder(callerOrders,
                      structuredClone(woMap, positionOf(woMap, id)), new)
    /\ centerBooked' =
           [centerBooked EXCEPT ![c] = bookedAfter(centerBooked[c], new)]
    /\ changes' = changesAfter(changes, wo, new)
    /\ scheduled' = Append(scheduled, id)
    /\ k' = k + 1
    /\ UNCHANGED << pc, err >>

AfterCall(id, wo, c, call) ==
    /\ lastCall' = << [id |-> id, center |-> c, call |-> call] >>
    /\ IF ~call.ok THEN Throw("NoShiftWindowInHorizon")
       ELSE IF ~call.returned THEN Throw("Looping")
       ELSE WriteBack(id, wo, c, placed(wo, call))

\* The call of the allocator for a non-maintenance order
callFor(wo, wc, booked, orders) ==
    scheduleWithShiftsAndBlocks(toISO(earliestStart(wo, orders)),
                                totalMinutes(wo), wc.data.shifts,
                                sortIntervals(booked))

PlaceOn(id, wo, c) ==
    IF c \notin centerIds(input.workCenters)
    THEN Throw("UnknownWorkCenter") /\ UNCHANGED lastCall
    ELSE IF isPinned(wo) THEN RecordPinned(id)
    ELSE IF ~(Range(wo.data.dependsOnWorkOrderIds) \subseteq Range(scheduled))
    THEN Throw("InternalOrderingViolation") /\ UNCHANGED lastCall
    ELSE AfterCall(id, wo, c,
                   callFor(wo, centerById(input.workCenters, c),
                           centerBooked[c], woMap))

Place(id, wo) == PlaceOn(id, wo, wo.data.workCenterId)

\* One pass of `for (const id of topoIds)`
PlaceOrder ==
    /\ pc = "place"
    /\ k <= Len(topoIds)
    /\ Place(topoIds[k], ById(woMap, topoIds[k]))
    /\ UNCHANGED << input, topoIds, result, run, first, frame >>

\* The return of reflow
Finish ==
    /\ pc = "place"
    /\ k > Len(topoIds)
    /\ pc' = "done"
    /\ result' = << [updatedWorkOrders |->
                        updatedWorkOrders(topoIds, scheduled, woMap),
                     changes |-> changes,
                     metrics |-> [totalDelayMinutes |-> sumDelays(changes),
                                  movedCount |-> Len(changes)]] >>
    /\ UNCHANGED << input, err, woMap, topoIds, centerBooked, scheduled,
                    changes, k, run, first, lastCall, callerOrders, frame >>

\* The caller feeds the result back: reflow on updatedWorkOrders with the
\* same work centers
Again ==
    /\ pc = "done"
    /\ run = 1
    /\ first' = << [input |-> input, result |-> result[1]] >>
    /\ input' = [workCenters |-> input.workCenters,
                 workOrders  |-> result[1].updatedWorkOrders]
    /\ run' = 2
    /\ pc' = "start"
    /\ err' = "none"
    /\ woMap' = << >>
    /\ topoIds' = << >>
    /\ centerBooked' = << >>
    /\ scheduled' = << >>
    /\ changes' = << >>
    /\ k' = 0
    /\ result' = << >>
    /\ lastCall' = NoCall
    /\ callerOrders' = result[1].updatedWorkOrders
    /\ UNCHANGED frame

-----------------------------------------------------------------------------
(* Inputs *)

\* Most work orders of an enumerated input.
MaxOrders == 3

Ids == << "A", "B", "C", "D", "E" >>

Shift(d, s, e) == [dayOfWeek |-> d, startHour |-> s, endHour |-> e]

\* Mon-Fri 08-17, the shift table of the sample data
dayShift == [d \in 1..5 |-> Shift(d, 8, 17)]

\* Mon-Fri with two shifts a day, 08-09 and 09-17
splitShift == [j \in 1..10 |->
                  IF j % 2 = 1 THEN Shift((j + 1) \div 2, 8, 9)
                  ELSE Shift(j \div 2, 9, 17)]

Window(s, e) == [startDate |-> Z(s), endDate |-> Z(e)]

Center(id, shifts, windows) ==
    [docId |-> id, data |-> [shifts |-> shifts, maintenanceWindows |-> windows]]

WorkOrder(id, c, s, e, dur, hasSetup, setup, maint, deps) ==
    [docId |-> id,
     data  |-> [workCenterId |-> c, startDate |-> Z(s), endDate |-> Z(e),
                durationMinutes |-> dur, hasSetup |-> hasSetup,
                setupTimeMinutes |-> setup, isMaintenance |-> maint,
                dependsOnWorkOrderIds |-> deps]]

\* wc1 and wc2 of the sample data
sampleWc1 == Center("wc1", dayShift, << Window(At(2, 10, 0), At(2, 13, 0)) >>)
sampleWc2 == Center("wc2", dayShift, << >>)

scenario1_delayCascade ==
    [workCenters |-> << sampleWc1 >>,
     workOrders  |-> <<
        WorkOrder("A", "wc1", At(1, 8, 0), At(1, 10, 0), 360, FALSE, 0, FALSE, << >>),
        WorkOrder("B", "wc1", At(1, 10, 0), At(1, 12, 0), 120, FALSE, 0, FALSE, << "A" >>),
        WorkOrder("C", "wc1", At(1, 12, 0), At(1, 14, 0), 120, FALSE, 0, FALSE, << "B" >>) >>]

scenario2_shiftSpanning ==
    [workCenters |-> << sampleWc2 >>,
     workOrders  |-> <<
        WorkOrder("A", "wc2", At(1, 16, 0), At(1, 18, 0), 120, FALSE, 0, FALSE, << >>) >>]

scenario3_maintenanceConflict ==
    [workCenters |-> << sampleWc1 >>,
     workOrders  |-> <<
        WorkOrder("A", "wc1", At(2, 8, 30), At(2, 9, 30), 60, FALSE, 0, TRUE, << >>),
        WorkOrder("B", "wc1", At(2, 9, 0), At(2, 12, 0), 180, FALSE, 0, FALSE, << >>) >>]

ScenarioInputs ==
    { scenario1_delayCascade, scenario2_shiftSpanning,
      scenario3_maintenanceConflict }

\* The work centers of the enumerated inputs: wc1 works the day shift and
\* has a maintenance window on Monday 09:00-10:00; wc2 works two shifts a
\* day and has no maintenance windows.
enumeratedCenters ==
    << Center("wc1", dayShift, << Window(At(1, 9, 0), At(1, 10, 0)) >>),
       Center("wc2", splitShift, << >>) >>

\* Where and from when an order is to run: on wc1 from Monday 07:00 (before
\* the shift) or 08:00, on wc2 from Monday 07:00
Placements ==
    { [center |-> "wc1", start |-> At(1, 7, 0)],
      [center |-> "wc1", start |-> At(1, 8, 0)],
      [center |-> "wc2", start |-> At(1, 7, 0)] }

\* What an order is: a pinned maintenance order of an hour, an order
\* without work, or half an hour of work after half an hour of setup.
\* Orders with work and no setup are those of the sample scenarios.
Kinds ==
    { [maint |-> TRUE,  dur |-> 60, hasSetup |-> FALSE, setup |-> 0],
      [maint |-> FALSE, dur |-> 0,  hasSetup |-> FALSE, setup |-> 0],
      [maint |-> FALSE, dur |-> 30, hasSetup |-> TRUE,  setup |-> 30] }

Slots == [at : Placements, kind : Kinds]

\* Dependency shapes over the orders 1..n of an input
Shapes ==
    { "none", "chain", "reverse", "join", "joinFirst", "fan", "skip",
      "twice", "cycle", "self", "unknown" }

dependsOn(shape, i, n) ==
    CASE shape = "chain"     -> IF i > 1 THEN << Ids[i - 1] >> ELSE << >>
      [] shape = "reverse"   -> IF i < n THEN << Ids[i + 1] >> ELSE << >>
      [] shape = "join"      -> IF i = n THEN [j \in 1..(n - 1) |-> Ids[j]]
                                ELSE << >>
      [] shape = "joinFirst" -> IF i = 1 THEN [j \in 1..(n - 1) |-> Ids[j + 1]]
                                ELSE << >>
      [] shape = "fan"       -> IF i > 1 THEN << Ids[1] >> ELSE << >>
      [] shape = "skip"      -> IF i = 2 /\ n > 2 THEN << Ids[n] >> ELSE << >>
      [] shape = "twice"     -> IF i = n /\ n > 1 THEN << Ids[1], Ids[1] >>
                                ELSE << >>
      [] shape = "cycle"     -> IF i = 1 /\ n > 1 THEN << Ids[2] >>
                                ELSE IF i = 2 THEN << Ids[1] >> ELSE << >>
      [] shape = "self"      -> IF i = 1 THEN << Ids[1] >> ELSE << >>
      [] shape = "unknown"   -> IF i = n THEN << "X" >> ELSE << >>
      [] OTHER               -> << >>

\* The original span of an enumerated order is an hour from its start
enumeratedOrder(i, n, slot, shape) ==
    WorkOrder(Ids[i], slot.at.center, slot.at.start, slot.at.start + 60,
              slot.kind.dur,
              slot.kind.hasSetup, slot.kind.setup, slot.kind.maint,
              dependsOn(shape, i, n))

enumeratedInput(n, slots, shape) ==
    [workCenters |-> enumeratedCenters,
     workOrders  |-> [i \in 1..n |-> enumeratedOrder(i, n, slots[i], shape)]]

InputChosen ==
    \/ input \in ScenarioInputs
    \/ \E n \in 1..MaxOrders : \E shape \in Shapes : \E slots \in [1..n -> Slots] :
          input = enumeratedInput(n, slots, shape)

Init ==
    /\ InputChosen
    /\ pc = "start"
    /\ err = "none"
    /\ woMap = << >>
    /\ topoIds = << >>
    /\ centerBooked = << >>
    /\ scheduled = << >>
    /\ changes = << >>
    /\ k = 0
    /\ result = << >>
    /\ run = 1
    /\ first = << >>
    /\ lastCall = NoCall
    /\ callerOrders = input.workOrders
    /\ frame = NoFrame

Next == Begin \/ PlaceOrder \/ Finish \/ Again

Spec == Init /\ [][Next]_vars

\* Inputs at the edges of the data model: a center without shifts (wc3), an
\* order on a center that is not in the input (wc4), orders that already lie
\* where reflow puts them, and orders that start late in a shift window.
boundaryCenters == enumeratedCenters \o << Center("wc3", << >>, << >>) >>

BoundaryPlacements ==
    { [center |-> "wc2", start |-> At(1, 8, 0)],
      [center |-> "wc2", start |-> At(1, 8, 30)],
      [center |-> "wc2", start |-> At(5, 16, 30)],
      [center |-> "wc3", start |-> At(1, 8, 0)],
      [center |-> "wc4", start |-> At(1, 8, 0)] }

BoundarySlots == [at : BoundaryPlacements, kind : Kinds]

BoundaryShapes == { "none", "chain" }

boundaryInput(n, slots, shape) ==
    [workCenters |-> boundaryCenters,
     workOrders  |-> [i \in 1..n |-> enumeratedOrder(i, n, slots[i], shape)]]

BoundaryInputChosen ==
    \/ input \in ScenarioInputs
    \/ \E n \in 1..MaxOrders : \E shape \in BoundaryShapes :
          \E slots \in [1..n -> BoundarySlots] :
              input = boundaryInput(n, slots, shape)

BoundaryInit ==
    /\ BoundaryInputChosen
    /\ pc = "start"
    /\ err = "none"
    /\ woMap = << >>
    /\ topoIds = << >>
    /\ centerBooked = << >>
    /\ scheduled = << >>
    /\ changes = << >>
    /\ k = 0
    /\ result = << >>
    /\ run = 1
    /\ first = << >>
    /\ lastCall = NoCall
    /\ callerOrders = input.workOrders
    /\ frame = NoFrame

BoundarySpec == BoundaryInit /\ [][Next]_vars

-----------------------------------------------------------------------------
(* Vocabulary of the properties *)

Returned == pc = "done"

ResultOrders == result[1].updatedWorkOrders

\* The order of this id as the caller passed it in
InputOrder(id) == ById(input.workOrders, id)

StartOf(o) == fromISO(o.data.startDate)
EndOf(o)   == fromISO(o.data.endDate)

WindowsOf(centerId) ==
    buildMaintenanceIntervals(centerById(input.workCenters, centerId))

ShiftsOf(centerId) == centerById(input.workCenters, centerId).data.shifts

\* The minute [t, t+1) lies inside an occurrence of a shift of the table
InShift(t, shifts) ==
    \E i \in 1..Len(shifts) :
        /\ shifts[i].dayOfWeek = weekdayMod7(t)
        /\ startOfDay(t) + shifts[i].startHour * 60 <= t
        /\ t < startOfDay(t) + shifts[i].endHour * 60

\* The instant t lies inside some interval of the list
InBlock(t, blocks) ==
    \E i \in 1..Len(blocks) : blocks[i].start <= t /\ t < blocks[i].end

\* A minute in which work can be done
Usable(t, shifts, blocks) == InShift(t, shifts) /\ ~InBlock(t, blocks)

RECURSIVE TotalLength(_)
TotalLength(segs) ==
    IF segs = << >> THEN 0
    ELSE (Head(segs).end - Head(segs).start) + TotalLength(Tail(segs))

\* The maintenance orders of each center do not overlap one another (the
\* maintenance windows of every center are disjoint in all inputs)
MaintenanceOrdersDisjoint ==
    \A i, j \in 1..Len(input.workOrders) :
        (/\ i # j
         /\ input.workOrders[i].data.isMaintenance
         /\ input.workOrders[j].data.isMaintenance
         /\ input.workOrders[i].data.workCenterId
               = input.workOrders[j].data.workCenterId)
        => ~overlaps(buildOrderInterval(input.workOrders[i]),
                     buildOrderInterval(input.workOrders[j]))

\* An allocator call of the current reflow has returned
CallReturned == lastCall # NoCall /\ lastCall[1].call.returned

TheCall == lastCall[1].call

-----------------------------------------------------------------------------
(* C1 *)

\* C1: on every input on which reflow succeeds (maintenance orders of a
\* center not overlapping one another), no two distinct orders of the result
\* on the same work center have overlapping spans.
C1_NoOverlapOnCenter ==
    (Returned /\ MaintenanceOrdersDisjoint) =>
        \A i, j \in 1..Len(ResultOrders) :
            (i # j /\ ResultOrders[i].data.workCenterId
                        = ResultOrders[j].data.workCenterId)
            => ~overlaps(buildOrderInterval(ResultOrders[i]),
                         buildOrderInterval(ResultOrders[j]))

-----------------------------------------------------------------------------
(* C2 *)

StartsInside(o, m) == m.start <= StartOf(o) /\ StartOf(o) < m.end
EndsInside(o, m)   == m.start < EndOf(o) /\ EndOf(o) <= m.end

\* C2: on every input on which reflow succeeds, no non-maintenance order of
\* the result starts in [m.start, m.end) or ends in (m.start, m.end] for a
\* maintenance window m of its work center.
C2_MaintenanceRespected ==
    Returned =>
        \A i \in 1..Len(ResultOrders) :
            ~ResultOrders[i].data.isMaintenance =>
                \A m \in Range(WindowsOf(ResultOrders[i].data.workCenterId)) :
                    /\ ~StartsInside(ResultOrders[i], m)
                    /\ ~EndsInside(ResultOrders[i], m)

-----------------------------------------------------------------------------
(* C3 *)

\* In the result, the order starts no earlier than each of its parents ends
StartsAfterParents(o) ==
    \A p \in Range(o.data.dependsOnWorkOrderIds) :
        StartOf(o) >= EndOf(ById(ResultOrders, p))

\* C3 as claimed: on every input on which reflow succeeds, every order of
\* the result, maintenance or not, starts at or after the end of each order
\* it depends on.
C3_DependenciesRespected ==
    Returned => \A i \in 1..Len(ResultOrders) : StartsAfterParents(ResultOrders[i])

\* C3 as amended: on every input on which reflow succeeds, every
\* non-maintenance order of the result starts at or after the end of each
\* order it depends on (maintenance or not, on the same center or another).
C3_MovableDependenciesRespected ==
    Returned =>
        \A i \in 1..Len(ResultOrders) :
            ~ResultOrders[i].data.isMaintenance
                => StartsAfterParents(ResultOrders[i])

\* A returned result in which a non-maintenance order was held back by a
\* parent: it starts where its parent on another center ends, later than
\* its original start.
C3_Witness ==
    /\ Returned
    /\ run = 1
    /\ \E i \in 1..Len(ResultOrders) :
          /\ ~ResultOrders[i].data.isMaintenance
          /\ \E p \in Range(ResultOrders[i].data.dependsOnWorkOrderIds) :
                /\ ById(ResultOrders, p).data.workCenterId
                      # ResultOrders[i].data.workCenterId
                /\ StartOf(ResultOrders[i]) = EndOf(ById(ResultOrders, p))
                /\ StartOf(InputOrder(ResultOrders[i].docId))
                      < EndOf(ById(ResultOrders, p))

-----------------------------------------------------------------------------
(* C4 *)

\* Every minute of the stretch [seg.start, seg.end) can be worked
SegmentUsable(seg, shifts, blocks) ==
    \A t \in seg.start..(seg.end - 1) : Usable(t, shifts, blocks)

\* C4: for every non-maintenance order placed by reflow, every minute the
\* allocator consumes lies inside a shift window of the order's center and
\* outside every interval of the blocked set passed to the call, and the
\* consumed minutes total durationMinutes + setupTimeMinutes.
C4_ConsumedMinutesAreWorkingMinutes ==
    CallReturned =>
        /\ \A s \in Range(TheCall.segs) :
              SegmentUsable(s, TheCall.shifts, TheCall.blocked)
        /\ TotalLength(TheCall.segs)
              = totalMinutes(InputOrder(lastCall[1].id))

-----------------------------------------------------------------------------
(* C5 *)

UsableMinutesIn(from, to, shifts, blocks) ==
    Cardinality({ t \in from..(to - 1) : Usable(t, shifts, blocks) })

\* C5: for every call of the allocator that returns (start, end), the number
\* of minutes of [start, end) that are inside a shift window and outside
\* every blocked interval equals durationMinutes.
C5_SpanHoldsExactlyTheDuration ==
    CallReturned =>
        UsableMinutesIn(fromISO(TheCall.startISO), fromISO(TheCall.endISO),
                        TheCall.shifts, TheCall.blocked)
            = TheCall.durationMinutes

-----------------------------------------------------------------------------
(* C6 *)

\* C6: for every call of the allocator with durationMinutes > 0 that
\* returns, the returned start is the first usable instant at or after
\* startISO: it is not before startISO, it is inside a shift window and in
\* no blocked interval, and no earlier instant from startISO on is usable.
C6_StartIsFirstUsableInstant ==
    (CallReturned /\ TheCall.durationMinutes > 0) =>
        /\ fromISO(TheCall.startISO) >= TheCall.from
        /\ Usable(fromISO(TheCall.startISO), TheCall.shifts, TheCall.blocked)
        /\ \A t \in TheCall.from..(fromISO(TheCall.startISO) - 1) :
              ~Usable(t, TheCall.shifts, TheCall.blocked)

-----------------------------------------------------------------------------
(* C7 *)

\* C7: for every call of the allocator with durationMinutes > 0 that
\* returns, the minute [end - 1, end) is inside a shift window and outside
\* every blocked interval.
C7_EndFollowsLastWorkingMinute ==
    (CallReturned /\ TheCall.durationMinutes > 0) =>
        Usable(fromISO(TheCall.endISO) - 1, TheCall.shifts, TheCall.blocked)

-----------------------------------------------------------------------------
(* C8 *)

\* C8: on every input on which reflow succeeds, every maintenance order has
\* in the result exactly the startDate and endDate strings of the input.
C8_MaintenanceOrdersKeepTheirSpan ==
    Returned =>
        \A i \in 1..Len(ResultOrders) :
            ResultOrders[i].data.isMaintenance =>
                /\ ResultOrders[i].data.startDate
                      = InputOrder(ResultOrders[i].docId).data.startDate
                /\ ResultOrders[i].data.endDate
                      = InputOrder(ResultOrders[i].docId).data.endDate

\* A returned result with a maintenance order that depends on an order which
\* ends after the maintenance order starts, on a center where another order
\* was moved.
C8_Witness ==
    /\ Returned
    /\ run = 1
    /\ \E i, j \in 1..Len(ResultOrders) :
          /\ ResultOrders[i].data.isMaintenance
          /\ ResultOrders[i].data.dependsOnWorkOrderIds = << ResultOrders[j].docId >>
          /\ ~ResultOrders[j].data.isMaintenance
          /\ ResultOrders[j].data.workCenterId = ResultOrders[i].data.workCenterId
          /\ EndOf(ResultOrders[j]) > StartOf(ResultOrders[i])
          /\ StartOf(ResultOrders[j]) # StartOf(InputOrder(ResultOrders[j].docId))

-----------------------------------------------------------------------------
(* C9 *)

\* C9: reflow on the result of a reflow that succeeded, with the same work
\* centers, succeeds and returns an empty changes list with movedCount = 0.
C9_SecondReflowChangesNothing ==
    run = 2 =>
        /\ pc # "failed"
        /\ Returned => /\ result[1].changes = << >>
                       /\ result[1].metrics.movedCount = 0

-----------------------------------------------------------------------------
(* C10 *)

ResultIds == docIds(ResultOrders)

\* Position of the id in the result
RECURSIVE IndexOf(_, _)
IndexOf(ids, id) == IF Head(ids) = id THEN 1 ELSE 1 + IndexOf(Tail(ids), id)

\* C10: on every input on which reflow succeeds, the result holds each input
\* work order id exactly once and every order appears after all orders
\* listed in its dependsOnWorkOrderIds.
C10_ResultIsTopologicalPermutation ==
    Returned =>
        /\ Len(ResultIds) = Len(input.workOrders)
        /\ Range(ResultIds) = Range(docIds(input.workOrders))
        /\ \A i \in 1..Len(ResultOrders) :
              \A p \in Range(ResultOrders[i].data.dependsOnWorkOrderIds) :
                  /\ p \in Range(ResultIds)
                  /\ IndexOf(ResultIds, p) < i

\* A returned result of three orders, a maintenance order among them, in
\* which the order listed first in the input comes last.
C10_Witness ==
    /\ Returned
    /\ run = 1
    /\ Len(ResultOrders) = 3
    /\ \E i \in 1..3 : ResultOrders[i].data.isMaintenance
    /\ ResultOrders[3].docId = input.workOrders[1].docId
    /\ ResultOrders[1].docId = input.workOrders[3].docId

-----------------------------------------------------------------------------
(* C11 *)

AllParentsKnown(orders) ==
    \A i \in 1..Len(orders) :
        Range(orders[i].data.dependsOnWorkOrderIds) \subseteq Range(docIds(orders))

ParentsOf(orders, id) == Range(ById(orders, id).data.dependsOnWorkOrderIds)

\* The ids reached from the set by following dependencies up to `steps` times
RECURSIVE Ancestors(_, _, _)
Ancestors(orders, ids, steps) ==
    IF steps = 0 THEN ids
    ELSE Ancestors(orders,
                   ids \cup UNION { ParentsOf(orders, x) : x \in ids },
                   steps - 1)

\* Some order is among its own ancestors
HasCycle(orders) ==
    \E i \in 1..Len(orders) :
        orders[i].docId \in Ancestors(orders, ParentsOf(orders, orders[i].docId),
                                      Len(orders))

Sorted == pc # "start"

\* C11: on an input whose dependency ids are all known, reflow fails with
\* CyclicDependency exactly when the dependency graph has a directed cycle, a
\* self-dependency included; on an acyclic one the sort emits every order.
C11_CycleIsDetected ==
    (Sorted /\ AllParentsKnown(input.workOrders)) =>
        /\ (pc = "failed" /\ err = "CyclicDependency")
              <=> HasCycle(input.workOrders)
        /\ ~HasCycle(input.workOrders)
              => Len(topoIds) = Len(input.workOrders)

\* reflow failed with CyclicDependency on three orders of which two depend
\* on each other and none depends on itself
C11_Witness ==
    /\ pc = "failed"
    /\ err = "CyclicDependency"
    /\ Len(input.workOrders) = 3
    /\ input.workOrders[3].data.dependsOnWorkOrderIds = << >>
    /\ \A i \in 1..3 :
          input.workOrders[i].docId \notin ParentsOf(input.workOrders,
                                                     input.workOrders[i].docId)

-----------------------------------------------------------------------------
(* C12 *)

\* C12: reflow fails with UnknownDependency exactly when some work order
\* lists a dependency id that is no docId of the input, and it fails before
\* any order is pinned, placed or allocated.
C12_UnknownDependencyIsRejected ==
    Sorted =>
        /\ (pc = "failed" /\ err = "UnknownDependency")
              <=> ~AllParentsKnown(input.workOrders)
        /\ err = "UnknownDependency" =>
              /\ scheduled = << >>
              /\ changes = << >>
              /\ centerBooked = << >>
              /\ lastCall = NoCall

\* reflow failed with UnknownDependency on three orders, the last of which
\* lists an id that is not in the input, the first being a maintenance order
C12_Witness ==
    /\ pc = "failed"
    /\ err = "UnknownDependency"
    /\ Len(input.workOrders) = 3
    /\ input.workOrders[1].data.isMaintenance
    /\ ~(ParentsOf(input.workOrders, "C") \subseteq Range(docIds(input.workOrders)))

-----------------------------------------------------------------------------
(* C13 *)

HasCenter(centerId) == centerId \in centerIds(input.workCenters)

\* The order is not a maintenance order and its center has no shifts
OnIdleCenter(o) ==
    /\ ~o.data.isMaintenance
    /\ HasCenter(o.data.workCenterId)
    /\ ShiftsOf(o.data.workCenterId) = << >>

\* C13: reflow never returns a result for an input that holds a
\* non-maintenance work order on a work center whose shifts list is empty,
\* whatever the order's durationMinutes >= 0.
C13_EmptyShiftsFail ==
    Returned =>
        \A i \in 1..Len(input.workOrders) : ~OnIdleCenter(input.workOrders[i])

-----------------------------------------------------------------------------
(* C14 *)

Ended == pc \in { "done", "failed" }

\* Some work order of the input, of this kind, names a center that is not
\* in the input
NamesMissingCenter(maintenance) ==
    \E i \in 1..Len(input.workOrders) :
        /\ input.workOrders[i].data.isMaintenance = maintenance
        /\ ~HasCenter(input.workOrders[i].data.workCenterId)

WellOrdered ==
    AllParentsKnown(input.workOrders) /\ ~HasCycle(input.workOrders)

\* C14 as claimed: on an acyclic input with known dependencies that holds a
\* work order, maintenance or not, on a center that is not in the input,
\* reflow fails with UnknownWorkCenter.
C14_UnknownCenterIsRejected ==
    (Ended /\ WellOrdered
       /\ (NamesMissingCenter(TRUE) \/ NamesMissingCenter(FALSE))) =>
        pc = "failed" /\ err = "UnknownWorkCenter"

\* The allocator found no shift window for an order of a center of the input
AllocationFailed ==
    /\ err = "NoShiftWindowInHorizon"
    /\ lastCall # NoCall
    /\ ~lastCall[1].call.ok
    /\ HasCenter(lastCall[1].center)

\* C14 as amended: on such an input reflow fails and returns no result; the
\* failure is UnknownWorkCenter when the order is a maintenance order, and
\* otherwise unless the allocator failed first for an order that precedes it
\* in topological order.
C14_UnknownCenterFails ==
    (Ended /\ WellOrdered
       /\ (NamesMissingCenter(TRUE) \/ NamesMissingCenter(FALSE))) =>
        /\ pc = "failed"
        /\ result = << >>
        /\ err = "UnknownWorkCenter" \/ AllocationFailed
        /\ NamesMissingCenter(TRUE) => err = "UnknownWorkCenter"

\* reflow failed with UnknownWorkCenter at a non-maintenance order after it
\* had placed another order
C14_Witness ==
    /\ pc = "failed"
    /\ err = "UnknownWorkCenter"
    /\ ~NamesMissingCenter(TRUE)
    /\ Len(scheduled) >= 1
    /\ changes # << >>

-----------------------------------------------------------------------------
(* C15 *)

\* The order the most recent allocator call was made for, as in the input
CalledOrder == InputOrder(lastCall[1].id)

RECURSIVE LatestEnd(_, _, _)
LatestEnd(orders, parents, least) ==
    IF parents = { } THEN least
    ELSE LET p == CHOOSE x \in parents : TRUE
         IN  LatestEnd(orders, parents \ { p },
                       IF EndOf(ById(orders, p)) > least
                       THEN EndOf(ById(orders, p)) ELSE least)

\* max(originalStart, latest parent end), the parents as placed so far
EarliestInstant(o) ==
    LatestEnd(woMap, Range(o.data.dependsOnWorkOrderIds), StartOf(o))

HasChangeFor(id) ==
    \E i \in 1..Len(changes) : changes[i].workOrderId = id

\* C15: a non-maintenance order with durationMinutes + setupTimeMinutes = 0
\* is returned with start = end = max(originalStart, latest parent end)
\* pushed out of the block that contains it, if any, and no change is
\* recorded for it when that is its original start and end.
C15_ZeroDurationIsAnInstant ==
    (CallReturned /\ totalMinutes(CalledOrder) = 0) =>
        /\ fromISO(TheCall.startISO) = fromISO(TheCall.endISO)
        /\ fromISO(TheCall.endISO)
              = pushOutOfBlocked(EarliestInstant(CalledOrder), TheCall.blocked)
        /\ (/\ StartOf(CalledOrder) = fromISO(TheCall.startISO)
            /\ EndOf(CalledOrder) = fromISO(TheCall.endISO))
              => ~HasChangeFor(lastCall[1].id)

-----------------------------------------------------------------------------
(* C16 *)

\* The place in the heap of the object woMap holds for this id
ObjectOf(id) == structuredClone(woMap, positionOf(woMap, id))

InputObjects == 1..Len(input.workOrders)

\* C16: during and after reflow, returned or failed, the work order objects
\* the caller passed hold what they held before the call, and the orders of
\* updatedWorkOrders are other objects than the caller's.
C16_InputIsUntouched ==
    /\ callerOrders = input.workOrders
    /\ Returned =>
          \A i \in 1..Len(ResultOrders) :
              ObjectOf(ResultOrders[i].docId) \notin InputObjects

\* reflow failed after it had written new dates to one of its copies, and
\* the caller's orders are as they were
C16_Witness ==
    /\ pc = "failed"
    /\ run = 1
    /\ callerOrders = input.workOrders
    /\ \E i \in 1..Len(woMap) : StartOf(woMap[i]) # StartOf(input.workOrders[i])

-----------------------------------------------------------------------------
(* C17 *)

\* The order's instants in the result differ from those in the input
Moved(o) ==
    \/ StartOf(o) # StartOf(InputOrder(o.docId))
    \/ EndOf(o) # EndOf(InputOrder(o.docId))

\* The ids of the orders of the list that moved, in the order of the list
RECURSIVE MovedIds(_)
MovedIds(orders) ==
    IF orders = << >> THEN << >>
    ELSE (IF Moved(Head(orders)) THEN << Head(orders).docId >> ELSE << >>)
         \o MovedIds(Tail(orders))

ChangedIds == [i \in 1..Len(result[1].changes) |->
                  result[1].changes[i].workOrderId]

\* C17: the changes list of a result holds, in placement (topological)
\* order, one record for each order whose start or end instant moved and
\* none for an order whose start and end are those of the input;
\* maintenance orders never appear in it.
C17_ChangesAreTheMovedOrders ==
    Returned =>
        /\ ChangedIds = MovedIds(ResultOrders)
        /\ \A i \in 1..Len(ChangedIds) :
              ~InputOrder(ChangedIds[i]).data.isMaintenance

-----------------------------------------------------------------------------
(* C18 *)

\* Sum of the positive deltas of the records from position i on
RECURSIVE DelayFrom(_, _)
DelayFrom(records, i) ==
    IF i > Len(records) THEN 0
    ELSE (IF records[i].deltaMinutes > 0 THEN records[i].deltaMinutes ELSE 0)
         + DelayFrom(records, i + 1)

\* C18: in every result movedCount is the number of change records, each
\* record's deltaMinutes is newEnd minus oldEnd in minutes (negative when
\* the end moved earlier), and totalDelayMinutes is the sum of the positive
\* deltas: negative deltas do not reduce it.
C18_MetricsSumTheChanges ==
    Returned =>
        /\ result[1].metrics.movedCount = Len(result[1].changes)
        /\ \A i \in 1..Len(result[1].changes) :
              result[1].changes[i].deltaMinutes
                  = fromISO(result[1].changes[i].newEnd)
                    - fromISO(result[1].changes[i].oldEnd)
        /\ result[1].metrics.totalDelayMinutes = DelayFrom(result[1].changes, 1)
        /\ result[1].metrics.totalDelayMinutes >= 0

\* A result with a record whose end moved earlier and one whose end moved
\* later
C18_Witness ==
    /\ Returned
    /\ \E i, j \in 1..Len(result[1].changes) :
          /\ result[1].changes[i].deltaMinutes < 0
          /\ result[1].changes[j].deltaMinutes > 0

-----------------------------------------------------------------------------
(* C19 *)

\* The order of this id in the result spans [start, end)
Spans(id, start, end) ==
    /\ StartOf(ById(ResultOrders, id)) = start
    /\ EndOf(ById(ResultOrders, id)) = end

\* C19 as claimed: on scenario S1 (A of 360 minutes from Monday 2026-03-02
\* 08:00, B of 120 minutes after A, C of 120 minutes after B, on wc1) reflow
\* returns A = Monday 08:00-16:00, B = Monday 16:00 - Tuesday 09:00 and
\* C = Tuesday 09:00-11:00.
C19_DelayCascadeAsStated ==
    (Returned /\ input = scenario1_delayCascade) =>
        /\ Spans("A", At(1, 8, 0), At(1, 16, 0))
        /\ Spans("B", At(1, 16, 0), At(2, 9, 0))
        /\ Spans("C", At(2, 9, 0), At(2, 11, 0))

\* C19 as amended: on scenario S1 reflow returns A = Monday 08:00-14:00,
\* B = Monday 14:00-16:00 and C = Monday 16:00 - Tuesday 09:00.
C19_DelayCascade ==
    (Returned /\ input = scenario1_delayCascade) =>
        /\ Spans("A", At(1, 8, 0), At(1, 14, 0))
        /\ Spans("B", At(1, 14, 0), At(1, 16, 0))
        /\ Spans("C", At(1, 16, 0), At(2, 9, 0))

\* reflow returned on scenario S1, all three orders in the result and in the
\* changes
C19_Witness ==
    /\ Returned
    /\ input = scenario1_delayCascade
    /\ ResultIds = << "A", "B", "C" >>
    /\ ChangedIds = << "A", "B", "C" >>

-----------------------------------------------------------------------------
(* C20 *)

\* The shift of the table whose occurrence holds the minute [t, t+1)
HoldsInstant(shift, t) ==
    /\ shift.dayOfWeek = weekdayMod7(t)
    /\ startOfDay(t) + shift.startHour * 60 <= t
    /\ t < startOfDay(t) + shift.endHour * 60

\* The end of the shift window that holds t (t lies inside one)
WindowEndAt(t, shifts) ==
    LET i == CHOOSE j \in 1..Len(shifts) : HoldsInstant(shifts[j], t)
    IN  startOfDay(t) + shifts[i].endHour * 60

\* The first whole hour from t on that lies inside a shift window (shift
\* windows begin and end on the hour); `hours` bounds the search
RECURSIVE NextWindowStart(_, _, _)
NextWindowStart(t, shifts, hours) ==
    IF InShift(t, shifts) \/ hours = 0 THEN t
    ELSE NextWindowStart(t + 60, shifts, hours - 1)

MinutesLeft(t, shifts) == WindowEndAt(t, shifts) - t

ResumesAt(t, shifts) ==
    NextWindowStart(WindowEndAt(t, shifts), shifts, HorizonDays * 24)

\* The call is for a center without blocks, from inside a shift window that
\* has fewer minutes left than the call needs, and what is left over fits
\* in the next window
SpansTwoWindows(call) ==
    /\ call.blocked = << >>
    /\ InShift(call.from, call.shifts)
    /\ MinutesLeft(call.from, call.shifts) < call.durationMinutes
    /\ call.durationMinutes - MinutesLeft(call.from, call.shifts)
          <= MinutesLeft(ResumesAt(call.from, call.shifts), call.shifts)

-----------------------------------------------------------------------------
(* C21 *)

\* The i-th worked stretch of the call ends at the start of block b with
\* minutes still to work
ReachesBlock(call, i, b) ==
    /\ i < Len(call.segs)
    /\ call.segs[i].end = b.start

-----------------------------------------------------------------------------
(* The utility functions called on their own *)

\* Most blocked intervals, and most shifts, of an enumerated argument.
MaxBlocks == 3
MaxShifts == 2

\* Instants on Monday morning, half an hour apart
BlockInstants == { At(1, 8, 0) + 30 * i : i \in 0..4 }

BlockChoices ==
    { Interval(s, e) : s \in BlockInstants, e \in BlockInstants } \
        { b \in [start : BlockInstants, end : BlockInstants] : b.start >= b.end }

\* What sortIntervals leaves: the list ascends by start
SortedByStart(bs) ==
    \A i \in 1..(Len(bs) - 1) : bs[i].start <= bs[i + 1].start

\* Cursors: before, inside, at the end of and after shift windows, on a day
\* with and on a day without shifts
ShiftCursors ==
    { At(1, 7, 15), At(1, 8, 0), At(1, 11, 59), At(1, 12, 0), At(1, 13, 30),
      At(1, 17, 0), At(2, 20, 0), At(4, 9, 0), At(6, 23, 59) }

ShiftChoices ==
    { Shift(d, h[1], h[2]) :
        d \in {1, 2, 5},
        h \in { << 8, 12 >>, << 8, 17 >>, << 12, 17 >>, << 10, 13 >> } }

\* The arguments of the allocator calls
mondayOnly == << Shift(1, 8, 17) >>

AllocTables == { dayShift, splitShift, mondayOnly, << >> }

AllocBlocks ==
    { Interval(At(1, 8, 0), At(1, 9, 0)),
      Interval(At(1, 9, 0), At(1, 10, 0)),
      Interval(At(1, 10, 0), At(1, 11, 0)),
      Interval(At(1, 16, 30), At(2, 8, 30)) }

AllocStarts == { At(1, 7, 0), At(1, 8, 30), At(1, 16, 45), At(6, 10, 0) }

AllocDurations == { 0, 45, 600 }

pushOutOfBlockedCall ==
    \E t \in BlockInstants : \E n \in 0..MaxBlocks :
        \E bs \in [1..n -> BlockChoices] :
            /\ SortedByStart(bs)
            /\ input = [fn |-> "pushOutOfBlocked", cursor |-> t, blocked |-> bs]

findNextShiftWindowCall ==
    \E t \in ShiftCursors : \E n \in 0..MaxShifts :
        \E shifts \in [1..n -> ShiftChoices] :
            input = [fn |-> "findNextShiftWindow", cursor |-> t,
                     shifts |-> shifts]

\* The caller's list holds distinct blocks, earliest first or latest first
InOrder(bs) ==
    \/ \A i \in 1..(Len(bs) - 1) : bs[i].start < bs[i + 1].start
    \/ \A i \in 1..(Len(bs) - 1) : bs[i].start > bs[i + 1].start

scheduleCall ==
    \E t \in AllocStarts : \E dur \in AllocDurations :
        \E shifts \in AllocTables : \E n \in 0..MaxBlocks :
            \E bs \in [1..n -> AllocBlocks] :
                /\ InOrder(bs)
                /\ input = [fn |-> "scheduleWithShiftsAndBlocks",
                            startISO |-> Z(t), durationMinutes |-> dur,
                            shifts |-> shifts, blocked |-> bs]


\* The work orders of the list that run on this center, in list order
ordersOn(workOrders, centerId) ==
    LET onCenter(wo) == wo.data.workCenterId = centerId
    IN  SelectSeq(workOrders, onCenter)

\* orders.map(buildOrderInterval)
orderIntervals(orders) ==
    [i \in 1..Len(orders) |-> buildOrderInterval(orders[i])]

\* for (let i = 1; i < intervals.length; i++): a neighbour pair overlaps
neighboursOverlap(intervals) ==
    \E i \in 2..Len(intervals) : overlaps(intervals[i - 1], intervals[i])

\* The error validateNoWorkCenterOverlaps throws, "none" if it returns
validateNoWorkCenterOverlaps(workOrders) ==
    IF \E i \in 1..Len(workOrders) :
           neighboursOverlap(
               sortIntervals(orderIntervals(
                   ordersOn(workOrders, workOrders[i].data.workCenterId))))
    THEN "OverlapDetected"
    ELSE "none"

\* `startsInside || endsInside` for some maintenance window of the center
boundaryInside(wo, windows) ==
    \E i \in 1..Len(windows) :
        StartsInside(wo, windows[i]) \/ EndsInside(wo, windows[i])

\* The error validateMaintenanceRespected throws, "none" if it returns
RECURSIVE validateMaintenanceRespected(_, _)
validateMaintenanceRespected(workOrders, workCenters) ==
    IF workOrders = << >> THEN "none"
    ELSE IF Head(workOrders).data.workCenterId \notin centerIds(workCenters)
    THEN "MissingWorkCenter"
    ELSE IF boundaryInside(Head(workOrders),
                           buildMaintenanceIntervals(
                               centerById(workCenters,
                                          Head(workOrders).data.workCenterId)))
    THEN "MaintenanceBoundaryViolated"
    ELSE validateMaintenanceRespected(Tail(workOrders), workCenters)

\* The lists handed to the validators: orders on wc1 and wc2 with spans
\* between the hours of Monday morning, spans of length zero included
SpanInstants == { At(1, 8, 0), At(1, 9, 0), At(1, 10, 0) }

OverlapSlots ==
    { slot \in [center : {"wc1", "wc2"}, start : SpanInstants,
                end : SpanInstants] : slot.start <= slot.end }

MaintenanceSlots ==
    { slot \in [center : {"wc1", "wc2"}, start : SpanInstants,
                end : SpanInstants, maint : BOOLEAN] : slot.start < slot.end }

checkedOrder(i, slot, maint) ==
    WorkOrder(Ids[i], slot.center, slot.start, slot.end,
              slot.end - slot.start, FALSE, 0, maint, << >>)

validateNoWorkCenterOverlapsCall ==
    \E n \in 1..MaxOrders : \E slots \in [1..n -> OverlapSlots] :
        input = [fn |-> "validateNoWorkCenterOverlaps",
                 workOrders |->
                     [i \in 1..n |-> checkedOrder(i, slots[i], FALSE)]]

validateMaintenanceRespectedCall ==
    \E n \in 1..MaxOrders : \E slots \in [1..n -> MaintenanceSlots] :
        input = [fn |-> "validateMaintenanceRespected",
                 workCenters |-> enumeratedCenters,
                 workOrders |->
                     [i \in 1..n |-> checkedOrder(i, slots[i], slots[i].maint)]]

\* The variables of reflow, which no utility call touches
reflowVars == << woMap, topoIds, centerBooked, scheduled, changes, k, run,
                 first, lastCall, callerOrders >>

\* The function returns this value
ReturnValue(v) ==
    /\ result' = << v >>
    /\ pc' = "done"
    /\ UNCHANGED << input, err, frame, reflowVars >>

CallPushOutOfBlocked ==
    /\ pc = "start"
    /\ input.fn = "pushOutOfBlocked"
    /\ ReturnValue(pushOutOfBlocked(input.cursor, input.blocked))

CallFindNextShiftWindow ==
    /\ pc = "start"
    /\ input.fn = "findNextShiftWindow"
    /\ IF findNextShiftWindow(input.cursor, input.shifts).ok
       THEN ReturnValue(findNextShiftWindow(input.cursor, input.shifts))
       ELSE /\ Fail("NoShiftWindowInHorizon")
            /\ UNCHANGED << input, result, frame, reflowVars >>

\* A validator returns nothing or throws
Validated(thrown) ==
    IF thrown = "none" THEN ReturnValue("undefined")
    ELSE /\ Fail(thrown)
         /\ UNCHANGED << input, result, frame, reflowVars >>

CallValidateNoWorkCenterOverlaps ==
    /\ pc = "start"
    /\ input.fn = "validateNoWorkCenterOverlaps"
    /\ Validated(validateNoWorkCenterOverlaps(input.workOrders))

CallValidateMaintenanceRespected ==
    /\ pc = "start"
    /\ input.fn = "validateMaintenanceRespected"
    /\ Validated(validateMaintenanceRespected(input.workOrders,
                                              input.workCenters))

\* scheduleWithShiftsAndBlocks up to its loop
EnterSchedule ==
    /\ pc = "start"
    /\ input.fn = "scheduleWithShiftsAndBlocks"
    /\ frame' = << LoopInit(input.startISO, input.durationMinutes,
                            sortIntervals(input.blocked)) >>
    /\ pc' = "loop"
    /\ UNCHANGED << input, err, result, reflowVars >>

\* The locals after the pass: a pass in which findNextShiftWindow threw ends
\* the call
AfterPass(st) ==
    /\ frame' = << st >>
    /\ IF st.thrown THEN Fail("NoShiftWindowInHorizon")
       ELSE UNCHANGED << pc, err >>

\* One pass of `while (remaining > 0)`, which is LoopPass: the sorted blocks,
\* the shift window and the locals after the pass are each computed once
SchedulePass ==
    /\ pc = "loop"
    /\ frame[1].remaining > 0
    /\ \E blockedSorted \in { sortIntervals(input.blocked) } :
       \E shiftWindow \in { findNextShiftWindow(frame[1].cursor, input.shifts) } :
       \E st \in { passInWindow(frame[1], shiftWindow, blockedSorted) } :
           AfterPass(st)
    /\ UNCHANGED << input, result, reflowVars >>

\* The loop is left and the call returns
ScheduleReturn ==
    /\ pc = "loop"
    /\ frame[1].remaining <= 0
    /\ result' = << callResult(input.startISO, input.durationMinutes,
                               input.shifts, sortIntervals(input.blocked),
                               frame[1]) >>
    /\ pc' = "done"
    /\ UNCHANGED << input, err, frame, reflowVars >>

CallChosen ==
    \/ pushOutOfBlockedCall
    \/ findNextShiftWindowCall
    \/ validateNoWorkCenterOverlapsCall
    \/ validateMaintenanceRespectedCall

\* The state in which a utility function is called on its own
Called ==
    /\ pc = "start"
    /\ err = "none"
    /\ woMap = << >>
    /\ topoIds = << >>
    /\ centerBooked = << >>
    /\ scheduled = << >>
    /\ changes = << >>
    /\ k = 0
    /\ result = << >>
    /\ run = 1
    /\ first = << >>
    /\ lastCall = NoCall
    /\ callerOrders = << >>
    /\ frame = NoFrame

CallInit == CallChosen /\ Called

CallNext ==
    \/ CallPushOutOfBlocked
    \/ CallFindNextShiftWindow
    \/ CallValidateNoWorkCenterOverlaps
    \/ CallValidateMaintenanceRespected

CallSpec == CallInit /\ [][CallNext]_vars

\* scheduleWithShiftsAndBlocks called on its own
ScheduleInit == scheduleCall /\ Called

ScheduleNext ==
    \/ EnterSchedule
    \/ SchedulePass
    \/ ScheduleReturn

\* scheduleWithShiftsAndBlocks is sequential code: once called it runs up
\* to its loop, a pass that can run does run, and so does the return
ScheduleSpec ==
    /\ ScheduleInit
    /\ [][ScheduleNext]_vars
    /\ WF_vars(EnterSchedule)
    /\ WF_vars(SchedulePass)
    /\ WF_vars(ScheduleReturn)

-----------------------------------------------------------------------------
(* C22 *)

\* No two intervals of the list overlap (they may touch)
PairwiseDisjoint(bs) ==
    \A i, j \in 1..Len(bs) : i # j => ~overlaps(bs[i], bs[j])

PushedOut == pc = "done" /\ input.fn = "pushOutOfBlocked"

\* C22: for every t and every list of pairwise non-overlapping blocks
\* sorted by start, r = pushOutOfBlocked(t, blocks) satisfies r >= t, r lies
\* in no block [b.start, b.end), and r = t when t lies in no block.
C22_PushedOutOfEveryBlock ==
    (PushedOut /\ PairwiseDisjoint(input.blocked)) =>
        /\ result[1] >= input.cursor
        /\ ~InBlock(result[1], input.blocked)
        /\ ~InBlock(input.cursor, input.blocked) => result[1] = input.cursor

-----------------------------------------------------------------------------
(* C23 *)

\* The two lists hold the same intervals, each as often
SameIntervals(a, b) ==
    \A x \in Range(a) \cup Range(b) : Count(a, x) = Count(b, x)

\* The spans of the maintenance orders of the input on this center
PinnedSpans(centerId) ==
    LET pinnedHere(o) ==
            o.data.isMaintenance /\ o.data.workCenterId = centerId
        pinned == SelectSeq(input.workOrders, pinnedHere)
    IN  [i \in 1..Len(pinned) |-> buildOrderInterval(pinned[i])]

\* No order has gone through the placement loop yet
BeforeFirstPlacement == pc = "place" /\ k = 1

\* The blocked sets as they are built at the start
BlockedSetsAtStart ==
    BeforeFirstPlacement =>
        \A c \in DOMAIN centerBooked :
            SameIntervals(centerBooked[c], WindowsOf(c) \o PinnedSpans(c))

\* The order the placement loop stands at
OrderAtHand == ById(woMap, topoIds[k])

\* This step is a pass of the loop that places a non-maintenance order
PlacesOrderAtHand ==
    /\ pc = "place"
    /\ k <= Len(topoIds)
    /\ ~OrderAtHand.data.isMaintenance
    /\ scheduled' = Append(scheduled, topoIds[k])

\* What a step from inside the placement loop does to the blocked sets
BlockedSetsGrow ==
    pc = "place" =>
        /\ DOMAIN centerBooked' = DOMAIN centerBooked
        /\ \A c \in DOMAIN centerBooked :
              IF PlacesOrderAtHand /\ c = OrderAtHand.data.workCenterId
              THEN /\ SameIntervals(centerBooked'[c],
                          Append(centerBooked[c],
                                 buildOrderInterval(ById(woMap', topoIds[k]))))
                   /\ SameIntervals(lastCall'[1].call.blocked, centerBooked[c])
              ELSE centerBooked'[c] = centerBooked[c]

\* C23: before the first order is placed each center's blocked set holds
\* exactly its maintenance windows and the spans of its maintenance orders;
\* placing a non-maintenance order on a center adds exactly that order's new
\* [start, end) to the center's blocked set, after the order was allocated
\* against the whole set, and leaves every other center's set as it is; no
\* other step of the placement loop changes a blocked set, so no interval is
\* ever removed.
C23_BlockedSetsOnlyGrow == [] BlockedSetsAtStart /\ [][BlockedSetsGrow]_vars

\* Two orders have been placed on one center: the second was allocated
\* against the span of the first
C23_Witness ==
    /\ pc = "place"
    /\ k = 3
    /\ CallReturned
    /\ ~isPinned(ById(woMap, topoIds[1]))
    /\ ~isPinned(ById(woMap, topoIds[2]))
    /\ ById(woMap, topoIds[1]).data.workCenterId = lastCall[1].center
    /\ ById(woMap, topoIds[2]).data.workCenterId = lastCall[1].center
    /\ InBlock(StartOf(ById(woMap, topoIds[1])), TheCall.blocked)
    /\ Len(centerBooked[lastCall[1].center])
          = Len(WindowsOf(lastCall[1].center)) + 2

-----------------------------------------------------------------------------
(* C24 *)

\* findNextShiftWindow was called on a table with at least one shift
WindowAsked ==
    /\ input.fn = "findNextShiftWindow"
    /\ pc # "start"
    /\ Len(input.shifts) > 0

\* [w.start, w.end) is the occurrence of this shift on the day of w.start,
\* cut at the cursor
CutFrom(w, cursor, shift) ==
    /\ shift.dayOfWeek = weekdayMod7(w.start)
    /\ w.end = startOfDay(w.start) + shift.endHour * 60
    /\ w.start = IF cursor > startOfDay(w.start) + shift.startHour * 60
                 THEN cursor
                 ELSE startOfDay(w.start) + shift.startHour * 60

\* C24: for every cursor and every non-empty table of valid shifts,
\* findNextShiftWindow returns a window W with W.start >= cursor,
\* W.start < W.end, W.end the end of one shift occurrence and W.start the
\* later of the cursor and that occurrence's start, and no instant of
\* [cursor, W.start) lies inside any shift occurrence.
C24_NextShiftWindow ==
    WindowAsked =>
        /\ pc = "done"
        /\ result[1].start >= input.cursor
        /\ result[1].start < result[1].end
        /\ \E i \in 1..Len(input.shifts) :
               CutFrom(result[1], input.cursor, input.shifts[i])
        /\ \A t \in input.cursor..(result[1].start - 1) :
               ~InShift(t, input.shifts)

\* Asked on Thursday 09:00 with the shifts Friday 10:00-13:00 and Friday
\* 08:00-12:00, in this order: the window is Friday 08:00-12:00
C24_Witness ==
    /\ WindowAsked
    /\ pc = "done"
    /\ input.cursor = At(4, 9, 0)
    /\ input.shifts = << Shift(5, 10, 13), Shift(5, 8, 12) >>
    /\ result[1].start = At(5, 8, 0)
    /\ result[1].end = At(5, 12, 0)

-----------------------------------------------------------------------------
(* C25 *)

ScheduleAsked == input.fn = "scheduleWithShiftsAndBlocks"

\* C25: scheduleWithShiftsAndBlocks, called with a table of at least one
\* valid shift, any blocked list, any start instant and any duration >= 0,
\* eventually returns, and returns with remaining = 0; it fails for want of
\* a shift window only when the table has no shift at all.
C25_ScheduleReturns ==
    /\ [] ((ScheduleAsked /\ pc = "failed") => Len(input.shifts) = 0)
    /\ [] ((ScheduleAsked /\ pc = "done") => frame[1].remaining = 0)
    /\ (ScheduleAsked /\ Len(input.shifts) > 0) ~> (pc = "done")

\* A call for 600 minutes on a Monday-only table with three blocks has
\* returned after working in the windows of two Mondays
C25_Witness ==
    /\ ScheduleAsked
    /\ pc = "done"
    /\ input.shifts = mondayOnly
    /\ input.durationMinutes = 600
    /\ Len(input.blocked) = 3
    /\ result[1].returned
    /\ fromISO(result[1].endISO) > At(8, 8, 0)
    /\ Len(result[1].segs) >= 3

-----------------------------------------------------------------------------
(* C26 *)

\* topoSortWorkOrders returned an order for the input of this reflow
SortReturned == pc # "start" /\ topoIds # << >>

InputIds == Range(docIds(input.workOrders))

InputPosition(id) == positionOf(input.workOrders, id)

DependsOnNothing(id) ==
    InputOrder(id).data.dependsOnWorkOrderIds = << >>

\* The position in topoIds of the parent of this order that is emitted
\* last: the moment the order is enqueued (0 for an order without parents)
EnqueuedAt(id) ==
    IF DependsOnNothing(id) THEN 0
    ELSE LET at == { IndexOf(topoIds, p) :
                        p \in Range(InputOrder(id).data.dependsOnWorkOrderIds) }
         IN  CHOOSE m \in at : \A n \in at : n <= m

\* The queue is first in, first out: x is enqueued before y
EnqueuedBefore(x, y) ==
    \/ EnqueuedAt(x) < EnqueuedAt(y)
    \/ EnqueuedAt(x) = EnqueuedAt(y) /\ InputPosition(x) < InputPosition(y)

\* topoIds is written once in a reflow, by Begin, which leaves k = 1
JustSorted == SortReturned /\ k = 1

\* C26: the placement order is the Kahn first-in-first-out order of the
\* input: every order is emitted exactly once; the orders without
\* dependencies come first, in input order; an order is enqueued when the
\* last of its parents is emitted, orders released by the same parent in
\* input order, and orders are emitted in the order they were enqueued; the
\* orders are placed in this order, so an order without dependencies is
\* placed before every order that has one.
C26_PlacementIsKahnOrder ==
    /\ JustSorted =>
          /\ Len(topoIds) = Len(input.workOrders)
          /\ Range(topoIds) = InputIds
          /\ \A x, y \in InputIds :
                EnqueuedBefore(x, y)
                    => IndexOf(topoIds, x) < IndexOf(topoIds, y)
          /\ \A x \in InputIds : EnqueuedAt(x) < IndexOf(topoIds, x)
          /\ \A x, y \in InputIds :
                (DependsOnNothing(x) /\ ~DependsOnNothing(y))
                    => IndexOf(topoIds, x) < IndexOf(topoIds, y)
    /\ SortReturned =>
          /\ Len(scheduled) <= Len(topoIds)
          /\ scheduled = SubSeq(topoIds, 1, Len(scheduled))

\* Reflow returned on the input A, B, C where B depends on C: the orders
\* were placed in the order A, C, B
C26_Witness ==
    /\ Returned
    /\ run = 1
    /\ docIds(input.workOrders) = << "A", "B", "C" >>
    /\ InputOrder("B").data.dependsOnWorkOrderIds = << "C" >>
    /\ topoIds = << "A", "C", "B" >>
    /\ scheduled = topoIds
    /\ \A id \in InputIds : InputOrder(id).data.workCenterId = "wc1"

-----------------------------------------------------------------------------
(* C27 *)

\* The allocator was called for an order of the current reflow
AllocatorCalled == lastCall # NoCall

\* C27: the allocator is called for a non-maintenance order with startISO =
\* max(original start, latest end of its parents as placed), parents on
\* other centers included; the new start of every placed non-maintenance
\* order is not earlier than its original start; and no run ends with a
\* parent missing from the scheduled map.
C27_StartsAtEarliestInstant ==
    /\ AllocatorCalled =>
          /\ ~CalledOrder.data.isMaintenance
          /\ TheCall.from = EarliestInstant(CalledOrder)
          /\ TheCall.from >= StartOf(CalledOrder)
          /\ \A p \in Range(CalledOrder.data.dependsOnWorkOrderIds) :
                TheCall.from >= EndOf(ById(woMap, p))
          /\ TheCall.returned =>
                fromISO(TheCall.startISO) >= StartOf(CalledOrder)
    /\ Returned =>
          \A i \in 1..Len(ResultOrders) :
              ~ResultOrders[i].data.isMaintenance =>
                  StartOf(ResultOrders[i])
                      >= StartOf(InputOrder(ResultOrders[i].docId))
    /\ err # "InternalOrderingViolation"

\* The allocator returned for an order with two parents, one of them on
\* another center, from the end of a parent, later than its original start
C27_Witness ==
    /\ CallReturned
    /\ Len(CalledOrder.data.dependsOnWorkOrderIds) = 2
    /\ \E p \in Range(CalledOrder.data.dependsOnWorkOrderIds) :
          /\ InputOrder(p).data.workCenterId # lastCall[1].center
          /\ TheCall.from = EndOf(ById(woMap, p))
    /\ TheCall.from > StartOf(CalledOrder)

-----------------------------------------------------------------------------
(* C28 *)

\* Two distinct orders of the list on one work center with a.start < b.end
\* and b.start < a.end
SomePairOverlaps(workOrders) ==
    \E i, j \in 1..Len(workOrders) :
        /\ i # j
        /\ workOrders[i].data.workCenterId = workOrders[j].data.workCenterId
        /\ StartOf(workOrders[i]) < EndOf(workOrders[j])
        /\ StartOf(workOrders[j]) < EndOf(workOrders[i])

OverlapsChecked == input.fn = "validateNoWorkCenterOverlaps" /\ pc # "start"

\* C28: on every list of work orders with start <= end, spans of length
\* zero included, validateNoWorkCenterOverlaps throws if and only if some
\* two distinct orders on the same work center overlap.
C28_ThrowsIffSomePairOverlaps ==
    OverlapsChecked => (pc = "failed" <=> SomePairOverlaps(input.workOrders))

-----------------------------------------------------------------------------
(* C29 *)

MaintenanceChecked == input.fn = "validateMaintenanceRespected" /\ pc # "start"

\* The order starts in [m.start, m.end) or ends in (m.start, m.end] for a
\* maintenance window m of its own center
TouchesWindow(o) ==
    \E i \in 1..Len(WindowsOf(o.data.workCenterId)) :
        \/ StartsInside(o, WindowsOf(o.data.workCenterId)[i])
        \/ EndsInside(o, WindowsOf(o.data.workCenterId)[i])

\* C29: validateMaintenanceRespected throws if and only if some order with
\* isMaintenance = false starts or ends inside a maintenance window of its
\* own center; a maintenance order that does so does not make it throw.
C29_OnlyMovableOrdersAreChecked ==
    MaintenanceChecked =>
        (pc = "failed" <=>
            \E i \in 1..Len(input.workOrders) :
                /\ ~input.workOrders[i].data.isMaintenance
                /\ TouchesWindow(input.workOrders[i]))

=============================================================================
